---- MODULE Spec2Model ----
(***************************************************************************)
(* Model of the Ilocano Food Match backend: the text normalizer and the    *)
(* restriction parser (services/matcher.py), the scoring engine            *)
(* match_dishes (services/matcher.py) and the HTTP layer with its startup  *)
(* load (main.py).                                                         *)
(*                                                                         *)
(* Text is a sequence of character codes (ASCII), so that lower-casing,    *)
(* the regular expressions and Python's string ordering are computed, not  *)
(* assumed.  The codes used below:                                         *)
(*   32 ' '   33 '!'   45 '-'   95 '_'   48..57 '0'..'9'                   *)
(*   65..90 'A'..'Z'   97..122 'a'..'z'  (110 'n', 111 'o', 112 'p')       *)
(***************************************************************************)
EXTENDS Integers, Sequences, FiniteSets, TLC

VARIABLES
    text,        \* parser run: the item text t the phrase is built from
    phrase,      \* parser run: the raw restriction phrase handed to the parser
    kind,        \* parser run: "no" (negated phrase), "bare" (bare tag), "-" (unused)
    token,       \* parser run: what parse_restriction_token returned
    ppc,         \* parser run: "ready" before the call, "parsed" after, "off" when unused
    dishes,      \* app.state.dishes: the catalog, a sequence of Dish records
    preference,  \* the PreferenceIn of the current call
    top_n,       \* the top_n argument of the last match_dishes call
    results,     \* what match_dishes returned to a direct caller
    response,    \* what the last HTTP operation answered
    mpc,         \* engine run: "ready", "called" (match_dishes), "posted" (POST /match), "off"
    source,      \* server: what DATA_PATH holds when the process starts
    phase,       \* server: "startup" until load_data has run, then "serving"; "off" when unused
    matchLog     \* server: per request, how often it was posted (0, 1, 2 = more) and its first answer

parseVars == <<text, phrase, kind, token, ppc>>

matchVars == <<dishes, preference, top_n, results, response, mpc>>

serverVars == <<source, phase, matchLog>>

vars == <<parseVars, matchVars, serverVars>>

(***************************************************************************)
(* Bounds of the model.                                                    *)
(***************************************************************************)
MaxLen == 3      \* longest item text drawn for the parser
MaxSep == 2      \* longest run of separators between "no" and the item text
MaxDishes == 2   \* longest catalog drawn for the engine
MaxTopN == 2     \* largest top_n drawn for a direct match_dishes call

(***************************************************************************)
(* Python's None for an optional string: no text has a negative code.      *)
(***************************************************************************)
None == <<-1>>

OrEmpty(s) == IF s = None THEN <<>> ELSE s

(***************************************************************************)
(* str.lower(), str.strip(), str.replace(c, " ") on ASCII text.            *)
(***************************************************************************)
LowerChar(c) == IF c \in 65..90 THEN c + 32 ELSE c

Lower(s) == [i \in 1..Len(s) |-> LowerChar(s[i])]

IsSpace(c) == c \in {9, 10, 11, 12, 13, 32}

IsAlnum(c) == c \in 97..122 \/ c \in 48..57

RECURSIVE LStrip(_)
LStrip(s) ==
    IF s = <<>> THEN <<>>
    ELSE IF IsSpace(Head(s)) THEN LStrip(Tail(s)) ELSE s

RECURSIVE RStrip(_)
RStrip(s) ==
    IF s = <<>> THEN <<>>
    ELSE IF IsSpace(s[Len(s)]) THEN RStrip(SubSeq(s, 1, Len(s) - 1)) ELSE s

Strip(s) == RStrip(LStrip(s))

ReplaceChar(s, c) == [i \in 1..Len(s) |-> IF s[i] = c THEN 32 ELSE s[i]]

(***************************************************************************)
(* re.sub(r"[^a-z0-9]+", " ", s): every maximal run of characters that are *)
(* not lowercase letters or digits becomes one space.                      *)
(***************************************************************************)
SubNonAlnum(s) ==
    LET marked == [i \in 1..Len(s) |->
                      IF IsAlnum(s[i]) THEN s[i]
                      ELSE IF i > 1 /\ ~IsAlnum(s[i - 1]) THEN -1   \* inside a run
                      ELSE 32]                                      \* a run starts
    IN  SelectSeq(marked, LAMBDA c : c # -1)

normalize_token(s) == Strip(SubNonAlnum(Lower(OrEmpty(s))))

(***************************************************************************)
(* re.sub(r"^no\s+", "", s): a leading "no" followed by one or more        *)
(* whitespace characters is removed, with all of that whitespace.          *)
(***************************************************************************)
HasNoPrefix(s) ==
    /\ Len(s) >= 3
    /\ s[1] = 110
    /\ s[2] = 111
    /\ IsSpace(s[3])

SubNoPrefix(s) == IF HasNoPrefix(s) THEN LStrip(SubSeq(s, 3, Len(s))) ELSE s

ReplaceSeparatorsNoUnderscore(s) == ReplaceChar(s, 45)

ReplaceSeparators(s) == ReplaceChar(ReplaceChar(s, 95), 45)

parse_restriction_token(restr) ==
    normalize_token(Strip(SubNoPrefix(Strip(ReplaceSeparators(Lower(OrEmpty(restr)))))))

(***************************************************************************)
(* Text pieces.  A reason string is kept as the sequence of its pieces: a  *)
(* literal of the source (lit) or a text taken from the data (txt).        *)
(***************************************************************************)
Lit(s) == [lit |-> s, txt |-> <<>>]

Txt(t) == [lit |-> "", txt |-> t]

RECURSIVE Join(_, _)
Join(parts, sep) ==
    IF parts = <<>> THEN <<>>
    ELSE IF Len(parts) = 1 THEN parts[1]
    ELSE parts[1] \o <<Lit(sep)>> \o Join(Tail(parts), sep)

(***************************************************************************)
(* Python's order on str: lexicographic by code point.                     *)
(***************************************************************************)
RECURSIVE StrLess(_, _)
StrLess(a, b) ==
    IF b = <<>> THEN FALSE
    ELSE IF a = <<>> THEN TRUE
    ELSE IF Head(a) # Head(b) THEN Head(a) < Head(b)
    ELSE StrLess(Tail(a), Tail(b))

RECURSIVE SortedStrings(_)
SortedStrings(S) ==
    IF S = {} THEN <<>>
    ELSE LET m == CHOOSE x \in S : \A y \in S : ~StrLess(y, x)
         IN  <<m>> \o SortedStrings(S \ {m})

Range(s) == {s[i] : i \in 1..Len(s)}

NormalizeAll(list) == [i \in 1..Len(list) |-> normalize_token(list[i])]

(***************************************************************************)
(* The model classes of models/dish.py.  Dish.description is read by no    *)
(* operation and is left out.                                              *)
(***************************************************************************)
Dish(id, name, ingredients, taste, cooking_method, dietary_tags, image, occasions) ==
    [id |-> id, name |-> name, ingredients |-> ingredients, taste |-> taste,
     cooking_method |-> cooking_method, dietary_tags |-> dietary_tags,
     image |-> image, occasions |-> occasions]

PreferenceIn(preferred_taste, ingredients_preference, dietary_restrictions, cooking_method, occasion) ==
    [preferred_taste |-> preferred_taste,
     ingredients_preference |-> ingredients_preference,
     dietary_restrictions |-> dietary_restrictions,
     cooking_method |-> cooking_method, occasion |-> occasion]

NoPreference == PreferenceIn(None, <<>>, <<>>, None, None)

RecommendationOut(id, name, image, reason, score) ==
    [id |-> id, name |-> name, image |-> image, reason |-> reason, score |-> score]

(***************************************************************************)
(* The points of the five rules and the default shortlist length.          *)
(***************************************************************************)
TastePoints == 3
IngredientPoints == 3
RestrictionPenalty == 5
CookingPoints == 2
OccasionPoints == 1
DefaultTopN == 3

FallbackReason == "No strong positive matches; showing as lower-scoring suggestion"

(***************************************************************************)
(* match_dishes, lines 50-56: the normalized preferences.  Restrictions    *)
(* that are the empty string are dropped before parsing.                   *)
(***************************************************************************)
RestrictionTokens(prefs) ==
    LET kept == SelectSeq(prefs.dietary_restrictions, LAMBDA r : r # <<>>)
    IN  [i \in 1..Len(kept) |-> parse_restriction_token(kept[i])]

NormalizedPrefs(prefs) ==
    [pref_taste |-> normalize_token(prefs.preferred_taste),
     pref_ingredients |-> NormalizeAll(prefs.ingredients_preference),
     pref_cooking |-> normalize_token(prefs.cooking_method),
     pref_occasion |-> normalize_token(prefs.occasion),
     restriction_tokens |-> RestrictionTokens(prefs)]

(***************************************************************************)
(* Lines 67-72: the normalized fields of a dish.                           *)
(***************************************************************************)
NormalizedDish(dish) ==
    [taste |-> normalize_token(dish.taste),
     ingredients |-> NormalizeAll(dish.ingredients),
     cooking_method |-> normalize_token(dish.cooking_method),
     dietary_tags |-> NormalizeAll(dish.dietary_tags),
     occasions |-> NormalizeAll(dish.occasions)]

(***************************************************************************)
(* One pass of the loop body, lines 64-113, rule by rule.  acc is the pair *)
(* (score, reasons) the body accumulates, nd the dish's normalized fields. *)
(***************************************************************************)
Award(acc, points, fragment) ==
    [score |-> acc.score + points, reasons |-> Append(acc.reasons, fragment)]

TasteRuleUnguarded(acc, dish, nd, np) ==
    IF np.pref_taste = nd.taste
    THEN Award(acc, TastePoints,
               <<Lit("Matches taste: "), Txt(dish.taste), Lit(" (+3)")>>)
    ELSE acc

TasteRule(acc, dish, nd, np) ==
    IF np.pref_taste # <<>> /\ np.pref_taste = nd.taste
    THEN Award(acc, TastePoints,
               <<Lit("Matches taste: "), Txt(dish.taste), Lit(" (+3)")>>)
    ELSE acc

IngredientRule(acc, nd, np) ==
    LET ingredient_matches == Range(np.pref_ingredients) \cap Range(nd.ingredients)
        sorted == SortedStrings(ingredient_matches)
        matches_str == Join([i \in 1..Len(sorted) |-> <<Txt(sorted[i])>>], ", ")
    IN  IF ingredient_matches # {}
        THEN Award(acc, IngredientPoints,
                   <<Lit("Contains preferred ingredient(s): ")>> \o matches_str
                       \o <<Lit(" (+3)")>>)
        ELSE acc

RestrictionHitTwice(acc, nd, rt) ==
    LET fragment == <<Lit("Contains restricted item: "), Txt(rt), Lit(" (-5)")>>
        first == IF rt \in Range(nd.ingredients)
                 THEN Award(acc, -RestrictionPenalty, fragment) ELSE acc
    IN  IF rt \in Range(nd.dietary_tags)
        THEN Award(first, -RestrictionPenalty, fragment) ELSE first

RestrictionHit(acc, nd, rt) ==
    IF rt \in Range(nd.ingredients) \/ rt \in Range(nd.dietary_tags)
    THEN Award(acc, -RestrictionPenalty,
               <<Lit("Contains restricted item: "), Txt(rt), Lit(" (-5)")>>)
    ELSE acc

RECURSIVE RestrictionRule(_, _, _)
RestrictionRule(acc, nd, tokens) ==
    IF tokens = <<>> THEN acc
    ELSE IF Head(tokens) = <<>> THEN RestrictionRule(acc, nd, Tail(tokens))
    ELSE RestrictionRule(RestrictionHit(acc, nd, Head(tokens)), nd, Tail(tokens))

CookingRule(acc, dish, nd, np) ==
    IF np.pref_cooking # <<>> /\ np.pref_cooking = nd.cooking_method
    THEN Award(acc, CookingPoints,
               <<Lit("Cooking method matches: "), Txt(dish.cooking_method), Lit(" (+2)")>>)
    ELSE acc

OccasionRule(acc, nd, np, prefs) ==
    IF np.pref_occasion # <<>> /\ np.pref_occasion \in Range(nd.occasions)
    THEN Award(acc, OccasionPoints,
               <<Lit("Suitable for: "), Txt(prefs.occasion), Lit(" (+1)")>>)
    ELSE acc

Fallback(acc) ==
    IF acc.reasons = <<>>
    THEN [acc EXCEPT !.reasons = <<(<<Lit(FallbackReason)>>)>>]
    ELSE acc

ScoreDish(dish, np, prefs) ==
    LET nd == NormalizedDish(dish)
        start == [score |-> 0, reasons |-> <<>>]
        a1 == TasteRule(start, dish, nd, np)
        a2 == IngredientRule(a1, nd, np)
        a3 == RestrictionRule(a2, nd, np.restriction_tokens)
        a4 == CookingRule(a3, dish, nd, np)
        a5 == OccasionRule(a4, nd, np, prefs)
        end == Fallback(a5)
    IN  RecommendationOut(dish.id, dish.name, dish.image,
                          Join(end.reasons, "; "), end.score)

(***************************************************************************)
(* results.sort(key=lambda r: (r.score, r.name), reverse=True): a stable   *)
(* sort, so candidates with equal keys keep their catalog order.           *)
(***************************************************************************)
KeyLessNameAscending(a, b) ==
    \/ a.score < b.score
    \/ a.score = b.score /\ StrLess(b.name, a.name)

KeyLess(a, b) ==
    \/ a.score < b.score
    \/ a.score = b.score /\ StrLess(a.name, b.name)

RECURSIVE InsertDescending(_, _)
InsertDescending(sorted, r) ==
    IF sorted = <<>> THEN <<r>>
    ELSE IF KeyLess(Head(sorted), r) THEN <<r>> \o sorted
    ELSE <<Head(sorted)>> \o InsertDescending(Tail(sorted), r)

RECURSIVE SortDescending(_, _)
SortDescending(sorted, rest) ==
    IF rest = <<>> THEN sorted
    ELSE SortDescending(InsertDescending(sorted, Head(rest)), Tail(rest))

Min(a, b) == IF a <= b THEN a ELSE b

TakeOneFewer(list, n) == SubSeq(list, 1, Min(n - 1, Len(list)))

Take(list, n) == SubSeq(list, 1, Min(n, Len(list)))

match_dishes(catalog, prefs, n) ==
    LET np == NormalizedPrefs(prefs)
        scored == [i \in 1..Len(catalog) |-> ScoreDish(catalog[i], np, prefs)]
    IN  Take(SortDescending(<<>>, scored), n)

(***************************************************************************)
(* POST /match, main.py lines 76-101.                                      *)
(***************************************************************************)
NoResponse == [op |-> "-", status |-> 0, detail |-> "", body |-> <<>>]

NoSource == [kind |-> "-", raw |-> <<>>]

HTTPException(op, status_code, detail) ==
    [op |-> op, status |-> status_code, detail |-> detail, body |-> <<>>]

Ok(op, body) == [op |-> op, status |-> 200, detail |-> "", body |-> body]

FormatRecommendationDocstring(r) ==
    [name |-> r.name, image |-> r.image, reason |-> r.reason]

FormatRecommendation(r) ==
    [name |-> r.name, image |-> r.image, reason |-> r.reason, score |-> r.score]

match_endpoint_unguarded(state_dishes, prefs) ==
    LET recommendations == match_dishes(state_dishes, prefs, DefaultTopN)
    IN  Ok("match", [i \in 1..Len(recommendations) |->
                         FormatRecommendation(recommendations[i])])

match_endpoint(state_dishes, prefs) ==
    IF state_dishes = <<>>
    THEN HTTPException("match", 500, "Dish dataset not loaded")
    ELSE LET recommendations == match_dishes(state_dishes, prefs, DefaultTopN)
         IN  Ok("match", [i \in 1..Len(recommendations) |->
                              FormatRecommendation(recommendations[i])])

(***************************************************************************)
(* The texts the engine runs draw from, as character codes.                *)
(***************************************************************************)
T_Pinakbet == <<80, 105, 110, 97, 107, 98, 101, 116>>    \* "Pinakbet"
T_pinakbetLower == <<112, 105, 110, 97, 107, 98, 101, 116>>    \* "pinakbet"
T_Bagnet == <<66, 97, 103, 110, 101, 116>>    \* "Bagnet"
T_bitter == <<98, 105, 116, 116, 101, 114>>    \* "bitter"
T_BITTER == <<66, 73, 84, 84, 69, 82>>    \* "BITTER"
T_Salty == <<83, 97, 108, 116, 121>>    \* "Salty"
T_boiled == <<98, 111, 105, 108, 101, 100>>    \* "boiled"
T_BoiledCap == <<66, 111, 105, 108, 101, 100>>    \* "Boiled"
T_DeepFried == <<68, 101, 101, 112, 45, 70, 114, 105, 101, 100>>    \* "Deep-Fried"
T_vegetables == <<118, 101, 103, 101, 116, 97, 98, 108, 101, 115>>    \* "vegetables"
T_pork == <<112, 111, 114, 107>>    \* "pork"
T_PorkCap == <<80, 111, 114, 107>>    \* "Pork"
T_garlic == <<103, 97, 114, 108, 105, 99>>    \* "garlic"
T_bagoong == <<98, 97, 103, 111, 111, 110, 103>>    \* "bagoong"
T_rice == <<114, 105, 99, 101>>    \* "rice"
T_RiceCap == <<82, 105, 99, 101>>    \* "Rice"
T_seafood == <<115, 101, 97, 102, 111, 111, 100>>    \* "seafood"
T_everyday == <<101, 118, 101, 114, 121, 100, 97, 121>>    \* "everyday"
T_EverydayCap == <<69, 118, 101, 114, 121, 100, 97, 121>>    \* "Everyday"
T_Celebration == <<67, 101, 108, 101, 98, 114, 97, 116, 105, 111, 110>>    \* "Celebration"
T_pinakbetJpg == <<112, 105, 110, 97, 107, 98, 101, 116, 46, 106, 112, 103>>    \* "pinakbet.jpg"
T_p2Jpg == <<112, 50, 46, 106, 112, 103>>    \* "p2.jpg"
T_NoHyphenPork == <<110, 111, 45, 112, 111, 114, 107>>    \* "no-pork"
T_NoUnderscorePork == <<78, 111, 95, 80, 111, 114, 107>>    \* "No_Pork"
T_NoSpacesPork == <<110, 111, 32, 32, 112, 111, 114, 107>>    \* "no  pork"
T_Dashes == <<45, 45>>    \* "--"
T_Bang == <<33>>    \* "!"
T_Blank == <<32>>    \* " "
T_Question == <<63>>    \* "?"

(***************************************************************************)
(* Dish records as they stand in dishes.json, without the id, which the    *)
(* catalog gives by position (ids are unique).  A catalog may hold the     *)
(* same record twice, under two ids.  The third record has fields that     *)
(* normalize to the empty string.                                          *)
(***************************************************************************)
DishPool ==
    { Dish(0, T_Pinakbet, <<T_vegetables, T_pork>>, T_bitter, T_boiled,
           <<T_pork>>, T_pinakbetJpg, <<T_everyday>>),
      Dish(0, T_Bagnet, <<T_PorkCap, T_bagoong, T_rice>>, T_Salty, T_DeepFried,
           <<T_PorkCap, T_seafood>>, T_p2Jpg, <<T_Celebration, T_everyday>>),
      Dish(0, T_pinakbetLower, <<T_Dashes>>, <<>>, T_Question,
           <<<<>>>>, None, <<T_Blank>>) }

RECURSIVE SeqsUpTo(_, _)
SeqsUpTo(S, n) ==
    IF n = 0 THEN {<<>>}
    ELSE LET shorter == SeqsUpTo(S, n - 1)
         IN  shorter \cup {Append(s, x) : s \in {y \in shorter : Len(y) = n - 1}, x \in S}

WithIds(records) == [i \in 1..Len(records) |-> [records[i] EXCEPT !.id = i]]

Catalogs == {WithIds(c) : c \in SeqsUpTo(DishPool, MaxDishes)}

PreferredTastes == {None, T_Dashes, T_BITTER}

IngredientPreferences ==
    {<<>>, <<<<>>>>, <<T_garlic, T_bagoong>>, <<T_RiceCap, T_bagoong>>}

DietaryRestrictions ==
    {<<>>, <<T_NoHyphenPork>>, <<T_NoUnderscorePork, T_NoSpacesPork>>,
     <<<<>>, T_Bang>>, <<T_seafood, T_NoHyphenPork>>}

\* Pairs of a preferred cooking method and an occasion.
CookingAndOccasion ==
    {<<None, None>>, <<T_BoiledCap, None>>, <<None, T_EverydayCap>>,
     <<T_BoiledCap, T_EverydayCap>>, <<T_Bang, T_Blank>>}

PreferenceRequests ==
    {PreferenceIn(t, i, r, co[1], co[2]) : t \in PreferredTastes,
                                           i \in IngredientPreferences,
                                           r \in DietaryRestrictions,
                                           co \in CookingAndOccasion}

(***************************************************************************)
(* Engine runs: a catalog and a request are drawn; then either             *)
(* match_dishes is called directly, with a positive top_n, or the request  *)
(* is posted to /match.                                                    *)
(***************************************************************************)
InitMatch ==
    /\ dishes \in Catalogs
    /\ preference \in PreferenceRequests
    /\ top_n = DefaultTopN
    /\ results = <<>>
    /\ response = NoResponse
    /\ mpc = "ready"
    /\ text = <<>>
    /\ phrase = <<>>
    /\ kind = "-"
    /\ token = None
    /\ ppc = "off"
    /\ source = NoSource
    /\ phase = "off"
    /\ matchLog = <<>>

CallMatchDishes(n) ==
    /\ mpc = "ready"
    /\ top_n' = n
    /\ results' = match_dishes(dishes, preference, n)
    /\ mpc' = "called"
    /\ UNCHANGED <<dishes, preference, response>>
    /\ UNCHANGED <<parseVars, serverVars>>

PostMatch ==
    /\ mpc = "ready"
    /\ response' = match_endpoint(dishes, preference)
    /\ mpc' = "posted"
    /\ UNCHANGED <<dishes, preference, top_n, results>>
    /\ UNCHANGED <<parseVars, serverVars>>

NextMatch ==
    \/ \E n \in 1..MaxTopN : CallMatchDishes(n)
    \/ PostMatch

SpecMatch == InitMatch /\ [][NextMatch]_vars

(***************************************************************************)
(* The data file, main.py line 34.  It is missing, or not JSON, or a JSON  *)
(* list of records.  A record whose taste is null fails the validation of  *)
(* Dish (taste: str is required), as does one whose name or cooking        *)
(* method is null.                                                         *)
(***************************************************************************)
InvalidRecord == Dish(0, T_Bagnet, <<T_PorkCap>>, None, T_DeepFried, <<>>, None, <<>>)

RawPool == DishPool \cup {InvalidRecord}

Sources ==
    {[kind |-> "missing", raw |-> <<>>], [kind |-> "unparseable", raw |-> <<>>]}
        \cup {[kind |-> "json", raw |-> WithIds(r)] : r \in SeqsUpTo(RawPool, MaxDishes)}

Validates(d) == d.name # None /\ d.taste # None /\ d.cooking_method # None

(***************************************************************************)
(* load_data, main.py lines 37-54.  The list comprehension validates the   *)
(* records in order and raises at the first that fails; open and json.load *)
(* raise when the file is missing or is not JSON.  Any exception leaves    *)
(* app.state.dishes the empty list.                                        *)
(***************************************************************************)
RECURSIVE ValidateAll(_, _)
ValidateAll(raw, done) ==
    IF raw = <<>> THEN [raised |-> FALSE, dishes |-> done]
    ELSE IF ~Validates(Head(raw)) THEN [raised |-> TRUE, dishes |-> done]
    ELSE ValidateAll(Tail(raw), Append(done, Head(raw)))

load_data_keeps_validated(src) ==
    IF src.kind # "json" THEN <<>> ELSE ValidateAll(src.raw, <<>>).dishes

load_data(src) ==
    IF src.kind # "json" THEN <<>>
    ELSE LET loaded == ValidateAll(src.raw, <<>>)
         IN  IF loaded.raised THEN <<>> ELSE loaded.dishes

(***************************************************************************)
(* GET /dishes and GET /dish/{dish_id}, main.py lines 57-73.               *)
(***************************************************************************)
get_all_dishes(state_dishes) == Ok("list", state_dishes)

RECURSIVE get_dish(_, _)
get_dish(state_dishes, dish_id) ==
    IF state_dishes = <<>> THEN HTTPException("get", 404, "Dish not found")
    ELSE IF Head(state_dishes).id = dish_id THEN Ok("get", <<Head(state_dishes)>>)
    ELSE get_dish(Tail(state_dishes), dish_id)

(***************************************************************************)
(* The requests posted to the running server.                              *)
(***************************************************************************)
ServerRequests ==
    { NoPreference,
      PreferenceIn(T_BITTER, <<>>, <<T_NoHyphenPork>>, None, None),
      PreferenceIn(None, <<T_RiceCap, T_bagoong>>, <<>>, T_BoiledCap, T_EverydayCap) }

(***************************************************************************)
(* The server: the startup event, then the three operations in any order.  *)
(***************************************************************************)
Init ==
    /\ source \in Sources
    /\ phase = "startup"
    /\ dishes = <<>>
    /\ matchLog = [p \in ServerRequests |-> [calls |-> 0, first |-> NoResponse]]
    /\ preference = NoPreference
    /\ top_n = DefaultTopN
    /\ results = <<>>
    /\ response = NoResponse
    /\ mpc = "off"
    /\ text = <<>>
    /\ phrase = <<>>
    /\ kind = "-"
    /\ token = None
    /\ ppc = "off"

LoadData ==
    /\ phase = "startup"
    /\ dishes' = load_data(source)
    /\ phase' = "serving"
    /\ UNCHANGED <<source, matchLog, preference, top_n, results, response, mpc>>
    /\ UNCHANGED parseVars

GetAllDishes ==
    /\ phase = "serving"
    /\ response' = get_all_dishes(dishes)
    /\ UNCHANGED <<dishes, preference, top_n, results, mpc>>
    /\ UNCHANGED <<parseVars, serverVars>>

GetDishAndRemove(dish_id) ==
    /\ phase = "serving"
    /\ response' = get_dish(dishes, dish_id)
    /\ dishes' = SelectSeq(dishes, LAMBDA d : d.id # dish_id)
    /\ UNCHANGED <<preference, top_n, results, mpc>>
    /\ UNCHANGED <<parseVars, serverVars>>

GetDish(dish_id) ==
    /\ phase = "serving"
    /\ response' = get_dish(dishes, dish_id)
    /\ UNCHANGED <<dishes, preference, top_n, results, mpc>>
    /\ UNCHANGED <<parseVars, serverVars>>

MatchEndpoint(prefs) ==
    /\ phase = "serving"
    /\ preference' = prefs
    /\ response' = match_endpoint(dishes, prefs)
    /\ matchLog' = IF matchLog[prefs].calls = 0
                   THEN [matchLog EXCEPT ![prefs] = [calls |-> 1, first |-> response']]
                   ELSE [matchLog EXCEPT ![prefs].calls = 2]
    /\ UNCHANGED <<dishes, top_n, results, mpc, source, phase>>
    /\ UNCHANGED parseVars

Next ==
    \/ LoadData
    \/ GetAllDishes
    \/ \E dish_id \in 0..(MaxDishes + 1) : GetDish(dish_id)
    \/ \E prefs \in ServerRequests : MatchEndpoint(prefs)

Spec == Init /\ [][Next]_vars

(***************************************************************************)
(* Inputs of the parser runs.                                              *)
(***************************************************************************)
ParseAlphabet == {110, 111, 80, 32, 45, 95, 33}     \* n o P ' ' - _ !

Separators == {32, 45, 95}                          \* ' ' - _

RECURSIVE StringsUpTo(_, _)
StringsUpTo(alphabet, n) ==
    IF n = 0 THEN {<<>>}
    ELSE LET shorter == StringsUpTo(alphabet, n - 1)
         IN  shorter \cup {<<c>> \o s : c \in alphabet, s \in {x \in shorter : Len(x) = n - 1}}

NoCasings == {<<110, 111>>, <<78, 111>>, <<110, 79>>, <<78, 79>>}   \* no No nO NO

SeparatorRuns == StringsUpTo(Separators, MaxSep) \ {<<>>}

InitParse ==
    /\ text \in StringsUpTo(ParseAlphabet, MaxLen)
    /\ kind \in {"no", "bare"}
    /\ \E c \in NoCasings, sep \in SeparatorRuns :
          phrase = IF kind = "no" THEN c \o sep \o text ELSE text
    /\ token = None
    /\ ppc = "ready"
    /\ dishes = <<>>
    /\ preference = NoPreference
    /\ top_n = DefaultTopN
    /\ results = <<>>
    /\ response = NoResponse
    /\ mpc = "off"
    /\ source = NoSource
    /\ phase = "off"
    /\ matchLog = <<>>

Parse ==
    /\ ppc = "ready"
    /\ token' = parse_restriction_token(phrase)
    /\ ppc' = "parsed"
    /\ UNCHANGED <<text, phrase, kind>>
    /\ UNCHANGED <<matchVars, serverVars>>

NextParse == Parse

SpecParse == InitParse /\ [][NextParse]_vars

(***************************************************************************)
(*                              PROPERTIES                                 *)
(***************************************************************************)

(***************************************************************************)
(* The five deltas of a catalog item, stated from the rule table and not   *)
(* from the loop: by existence of a match and by counting restrictions.    *)
(***************************************************************************)
Normalized(list) == {normalize_token(list[i]) : i \in 1..Len(list)}

TasteDelta(d, p) ==
    IF /\ normalize_token(p.preferred_taste) # <<>>
       /\ normalize_token(p.preferred_taste) = normalize_token(d.taste)
    THEN 3 ELSE 0

IngredientDelta(d, p) ==
    IF \E i \in 1..Len(p.ingredients_preference) : \E j \in 1..Len(d.ingredients) :
          normalize_token(p.ingredients_preference[i]) = normalize_token(d.ingredients[j])
    THEN 3 ELSE 0

RestrictionDelta(d, p) ==
    LET hits == {k \in 1..Len(p.dietary_restrictions) :
                    LET t == parse_restriction_token(p.dietary_restrictions[k])
                    IN  /\ t # <<>>
                        /\ t \in Normalized(d.ingredients) \cup Normalized(d.dietary_tags)}
    IN  (-5) * Cardinality(hits)

CookingDelta(d, p) ==
    IF /\ normalize_token(p.cooking_method) # <<>>
       /\ normalize_token(p.cooking_method) = normalize_token(d.cooking_method)
    THEN 2 ELSE 0

OccasionDelta(d, p) ==
    IF /\ normalize_token(p.occasion) # <<>>
       /\ normalize_token(p.occasion) \in Normalized(d.occasions)
    THEN 1 ELSE 0

ExpectedScore(d, p) ==
    TasteDelta(d, p) + IngredientDelta(d, p) + RestrictionDelta(d, p)
        + CookingDelta(d, p) + OccasionDelta(d, p)

\* The score the engine gives dish d for request p.
EngineScore(d, p) == ScoreDish(d, NormalizedPrefs(p), p).score

\* Catalog ids are positions, so a candidate's dish is found by its id.
DishOf(r) == dishes[r.id]

\* The ranking key (score, name) of a is at least that of b.
KeyAtLeast(a, b) ==
    \/ a.score > b.score
    \/ a.score = b.score /\ ~StrLess(a.name, b.name)

C2_ScoreIsSumOfDeltas ==
    mpc = "called" =>
        \A k \in 1..Len(results) :
            LET d == DishOf(results[k])
                p == preference
                score == results[k].score
            IN  /\ score = ExpectedScore(d, p)
                /\ score - EngineScore(d, [p EXCEPT !.preferred_taste = None])
                      = TasteDelta(d, p)
                /\ score - EngineScore(d, [p EXCEPT !.ingredients_preference = <<>>])
                      = IngredientDelta(d, p)
                /\ score - EngineScore(d, [p EXCEPT !.dietary_restrictions = <<>>])
                      = RestrictionDelta(d, p)
                /\ score - EngineScore(d, [p EXCEPT !.cooking_method = None])
                      = CookingDelta(d, p)
                /\ score - EngineScore(d, [p EXCEPT !.occasion = None])
                      = OccasionDelta(d, p)

\* The scenario of the specification: Pinakbet, bitter taste, "no-pork".
C2_Witness ==
    /\ mpc = "called"
    /\ preference = PreferenceIn(T_BITTER, <<>>, <<T_NoHyphenPork>>, None, None)
    /\ Len(results) = 1
    /\ results[1].name = T_Pinakbet
    /\ results[1].score = -2
    /\ results[1].reason =
          <<Lit("Matches taste: "), Txt(T_bitter), Lit(" (+3)"), Lit("; "),
            Lit("Contains restricted item: "), Txt(T_pork), Lit(" (-5)")>>

(***************************************************************************)
(* C3: over a non-empty catalog the result is ordered by (score, name),    *)
(* both descending, and no dish left out has a key strictly greater than   *)
(* that of a returned candidate.                                           *)
(***************************************************************************)
C3_RankedByScoreThenName ==
    mpc = "called" /\ dishes # <<>> =>
        /\ \A k \in 1..(Len(results) - 1) : KeyAtLeast(results[k], results[k + 1])
        /\ \A i \in 1..Len(dishes) :
              (\A k \in 1..Len(results) : results[k].id # i) =>
                  \A k \in 1..Len(results) :
                      KeyAtLeast(results[k],
                                 [score |-> ExpectedScore(dishes[i], preference),
                                  name |-> dishes[i].name])

\* Two dishes tie on the score, the second one wins on its name and the first is left out.
C3_Witness ==
    /\ mpc = "called"
    /\ Len(dishes) = 2
    /\ top_n = 1
    /\ ExpectedScore(dishes[1], preference) = ExpectedScore(dishes[2], preference)
    /\ StrLess(dishes[1].name, dishes[2].name)
    /\ results[1].id = 2

(***************************************************************************)
(* C4: match returns exactly min(top_n, catalog size) candidates, each the *)
(* candidate of a different catalog item.                                  *)
(***************************************************************************)
C4_TopNBound ==
    mpc = "called" =>
        /\ Len(results) = (IF top_n <= Len(dishes) THEN top_n ELSE Len(dishes))
        /\ \A k \in 1..Len(results) :
              /\ results[k].id \in 1..Len(dishes)
              /\ results[k].name = DishOf(results[k]).name
              /\ results[k].image = DishOf(results[k]).image
        /\ \A j, k \in 1..Len(results) : j # k => results[j].id # results[k].id

C4_Witness ==
    /\ mpc = "called"
    /\ Len(dishes) = 2
    /\ top_n = 1
    /\ Len(results) = 1
    /\ preference.dietary_restrictions # <<>>

(***************************************************************************)
(* C5: a request with every field empty or absent.                         *)
(***************************************************************************)
AllFieldsEmpty(p) ==
    /\ p.preferred_taste \in {None, <<>>}
    /\ p.ingredients_preference = <<>>
    /\ p.dietary_restrictions = <<>>
    /\ p.cooking_method \in {None, <<>>}
    /\ p.occasion \in {None, <<>>}

FallbackOutcome(reason) ==
    mpc = "called" /\ AllFieldsEmpty(preference) /\ dishes # <<>> =>
        /\ \A k \in 1..Len(results) :
              results[k].score = 0 /\ results[k].reason = <<Lit(reason)>>
        /\ \A k \in 1..(Len(results) - 1) :
              ~StrLess(results[k].name, results[k + 1].name)

(***************************************************************************)
(* C5 (as claimed): for an all-empty request every candidate has score 0   *)
(* and the fallback reason ending in a period, and the candidates are in   *)
(* descending order of name.                                               *)
(***************************************************************************)
C5_FallbackWithPeriod ==
    FallbackOutcome("No strong positive matches; showing as lower-scoring suggestion.")

(***************************************************************************)
(* C5 (amended): the same, with the fallback reason of the code, which has *)
(* no final period.                                                        *)
(***************************************************************************)
C5_FallbackWithoutPeriod ==
    FallbackOutcome("No strong positive matches; showing as lower-scoring suggestion")

C5_Witness ==
    /\ mpc = "called"
    /\ AllFieldsEmpty(preference)
    /\ Len(results) = 2
    /\ results[1].name = T_pinakbetLower
    /\ results[2].name = T_Bagnet

(***************************************************************************)
(* C6 (as claimed): a preference value that normalizes to the empty string *)
(* contributes nothing: the result is the one of the same request with     *)
(* those values taken out (same scores, same reasons, same order).         *)
(***************************************************************************)
WithoutEmpty(p) ==
    [preferred_taste |->
         IF normalize_token(p.preferred_taste) = <<>> THEN None ELSE p.preferred_taste,
     ingredients_preference |->
         SelectSeq(p.ingredients_preference, LAMBDA i : normalize_token(i) # <<>>),
     dietary_restrictions |->
         SelectSeq(p.dietary_restrictions, LAMBDA r : parse_restriction_token(r) # <<>>),
     cooking_method |->
         IF normalize_token(p.cooking_method) = <<>> THEN None ELSE p.cooking_method,
     occasion |->
         IF normalize_token(p.occasion) = <<>> THEN None ELSE p.occasion]

C6_EmptyPreferenceNeverMatches ==
    mpc = "called" => results = match_dishes(dishes, WithoutEmpty(preference), top_n)

ReadsAsNoPhrase(t) == HasNoPrefix(Strip(ReplaceSeparators(Lower(t))))

C7_ParseInsensitiveToPhrasing ==
    ppc = "parsed" =>
        /\ kind = "no" => token = normalize_token(text)
        /\ kind = "bare" /\ ~ReadsAsNoPhrase(text) => token = normalize_token(text)

(***************************************************************************)
(* C7 (amended): the same for every item text t that holds a character     *)
(* other than whitespace, hyphen and underscore.                           *)
(***************************************************************************)
HasItem(t) == \E i \in 1..Len(t) : ~IsSpace(t[i]) /\ t[i] \notin {45, 95}

C7_ParseInsensitiveForItems ==
    ppc = "parsed" =>
        /\ kind = "no" /\ HasItem(text) => token = normalize_token(text)
        /\ kind = "bare" /\ ~ReadsAsNoPhrase(text) => token = normalize_token(text)

\* "No_Po" parses to "po".
C7_Witness ==
    /\ ppc = "parsed"
    /\ kind = "no"
    /\ phrase = <<78, 111, 95, 80, 111>>
    /\ token = <<112, 111>>

(***************************************************************************)
(* C9: startup always completes, and once it has the catalog is every      *)
(* record of the source if the source is a list of valid records and the   *)
(* empty list otherwise; the operations answer from that catalog.          *)
(***************************************************************************)
ExpectedCatalog(src) ==
    IF src.kind = "json" /\ \A i \in 1..Len(src.raw) : Validates(src.raw[i])
    THEN src.raw ELSE <<>>

C9_LoadAllOrNothing ==
    /\ phase = "startup" => ENABLED LoadData
    /\ phase = "serving" =>
          /\ dishes = ExpectedCatalog(source)
          /\ response.op = "list" => response.body = ExpectedCatalog(source)
          /\ response.op = "get" /\ response.status = 200 =>
                \E i \in 1..Len(ExpectedCatalog(source)) :
                    response.body = <<ExpectedCatalog(source)[i]>>
          /\ response.op = "match" =>
                (response.status = 500) = (ExpectedCatalog(source) = <<>>)

\* A valid record followed by an invalid one: nothing is kept, and /match answers 500.
C9_Witness ==
    /\ phase = "serving"
    /\ source.kind = "json"
    /\ Len(source.raw) = 2
    /\ Validates(source.raw[1])
    /\ ~Validates(source.raw[2])
    /\ dishes = <<>>
    /\ response.op = "match"
    /\ response.status = 500

(***************************************************************************)
(* C10: after the load no operation changes the catalog, and every answer  *)
(* of POST /match equals the first answer the same request got, whatever   *)
(* operations ran in between.                                              *)
(***************************************************************************)
C10_MatchIsPure ==
    /\ [](phase = "serving" /\ response.op = "match" =>
              response = matchLog[preference].first)
    /\ [][phase = "serving" => dishes' = dishes]_vars

\* The same request was posted more than once and got recommendations.
C10_Witness ==
    /\ phase = "serving"
    /\ response.op = "match"
    /\ response.status = 200
    /\ Len(response.body) = 2
    /\ matchLog[preference].calls = 2
    /\ \A p \in ServerRequests : matchLog[p].calls > 0

====
